---------------------------- MODULE Spec2Model ----------------------------
(***************************************************************************)
(* Model of the rules-engine facade service (src/re/service.go).           *)
(*                                                                         *)
(* A string is a sequence of glyphs.  A glyph is a single character ("a",  *)
(* "-", "_", "%", " ", a digit) or an indivisible piece of fixed text      *)
(* ("from", "FROM", "Create stream", ...).  Each piece of fixed text holds  *)
(* a character that no other glyph supplies in its place, so two different *)
(* glyph sequences always denote two different Go strings.                 *)
(***************************************************************************)
EXTENDS Integers, Sequences, FiniteSets, TLC

VARIABLES
    op,       \* the operation of the call in progress, "none" between calls
    ident,    \* what auth.Identify answers for the caller's token
    args,     \* the operation-specific arguments of the call
    chan,     \* what sdk.Channel answered: "none" (not asked), "ok", "err"
    resp,     \* the backend's answer to the HTTP request of the call
    trace,    \* the collaborator calls made, in order
    sent,     \* the HTTP requests put on the wire, in order
    ret,      \* the value returned
    err,      \* the error returned ("nil" for none)
    outcome,  \* "none" | "returned" | "panic"
    ns        \* two callers' stream names (tenancy specification only)

vars == <<op, ident, args, chan, resp, trace, sent, ret, err, outcome, ns>>

(***************************************************************************)
(* Bounds of the model.                                                    *)
(***************************************************************************)
MaxIdLen == 2
MaxNameLen == 2
MaxSqlLen == 5
MaxEntryLen == 3
MaxList == 2
MaxActions == 1

(***************************************************************************)
(* Program constants.                                                      *)
(***************************************************************************)
StatusOK == 200
StatusCreated == 201
StatusNotFound == 404

host == <<"http://localhost:9081">>
FORMAT == <<"json">>
TYPE == <<"mainflux">>

ErrMalformedEntity == "ErrMalformedEntity"
ErrUnauthorizedAccess == "ErrUnauthorizedAccess"
ErrNotFound == "ErrNotFound"
ErrKuiperServer == "ErrKuiperServer"
ErrorKinds == {ErrMalformedEntity, ErrUnauthorizedAccess, ErrNotFound, ErrKuiperServer}

(***************************************************************************)
(* Library functions the service calls, computed as Go computes them.      *)
(***************************************************************************)
\* All sequences over alphabet A of length 0..n.
SeqsUpTo(A, n) == UNION {[1..k -> A] : k \in 0..n}

\* strings.Index: the 1-based place of the first occurrence of sub in s, 0 if none.
Index(s, sub) ==
    LET at(i) == SubSeq(s, i, i + Len(sub) - 1) = sub
        hits == {i \in 1..(Len(s) - Len(sub) + 1) : at(i)}
    IN IF hits = {} THEN 0 ELSE CHOOSE i \in hits : \A j \in hits : i <= j

\* strings.Replace(s, old, new, 1), old non-empty: the first occurrence only.
ReplaceFirst(s, old, new) ==
    LET i == Index(s, old)
    IN IF i = 0 THEN s
       ELSE SubSeq(s, 1, i - 1) \o new \o SubSeq(s, i + Len(old), Len(s))

\* strings.ReplaceAll(s, old, new), old non-empty: every non-overlapping
\* occurrence, left to right.
RECURSIVE ReplaceAll(_, _, _)
ReplaceAll(s, old, new) ==
    LET i == Index(s, old)
    IN IF i = 0 THEN s
       ELSE SubSeq(s, 1, i - 1) \o new
            \o ReplaceAll(SubSeq(s, i + Len(old), Len(s)), old, new)

IsSpace(g) == g = " "

\* Length of the longest prefix of s holding no white space.
WordLen(s) ==
    LET sp == {i \in 1..Len(s) : IsSpace(s[i])}
    IN IF sp = {} THEN Len(s)
       ELSE (CHOOSE i \in sp : \A j \in sp : i <= j) - 1

\* strings.Fields: the maximal runs of non-space glyphs.
RECURSIVE Fields(_)
Fields(s) ==
    IF s = <<>> THEN <<>>
    ELSE IF IsSpace(Head(s)) THEN Fields(Tail(s))
    ELSE LET n == WordLen(s)
         IN <<SubSeq(s, 1, n)>> \o Fields(SubSeq(s, n + 1, Len(s)))

\* strings.Join
RECURSIVE Join(_, _)
Join(words, sep) ==
    IF words = <<>> THEN <<>>
    ELSE IF Len(words) = 1 THEN words[1]
    ELSE words[1] \o sep \o Join(Tail(words), sep)

Digit(d) == CASE d = 0 -> "0" [] d = 1 -> "1" [] d = 2 -> "2" [] d = 3 -> "3"
              [] d = 4 -> "4" [] d = 5 -> "5" [] d = 6 -> "6" [] d = 7 -> "7"
              [] d = 8 -> "8" [] d = 9 -> "9"

\* strconv.Itoa for a non-negative number.
RECURSIVE Itoa(_)
Itoa(n) == IF n < 10 THEN <<Digit(n)>> ELSE Itoa(n \div 10) \o <<Digit(n % 10)>>

HexGlyphs == {"a", "0", "1", "2", "3", "4", "5", "6", "7", "8", "9"}

\* url.Parse, as http.NewRequest and http.Get call it, rejects a URL with a
\* "%" that is not followed by two hexadecimal digits.
ValidURL(url) ==
    \A i \in 1..Len(url) :
        url[i] = "%" =>
            /\ i + 2 <= Len(url)
            /\ url[i + 1] \in HexGlyphs
            /\ url[i + 2] \in HexGlyphs

\* errors.Wrap(wrapper, cause): an error of the wrapper's kind.
Wrap(wrapper, cause) == wrapper

(***************************************************************************)
(* Helpers of service.go.                                                  *)
(***************************************************************************)
sql(name, topic, row) ==
    <<"create stream ">> \o name \o <<" (">> \o row \o <<") WITH (DATASOURCE = \"">>
    \o topic \o <<"\" FORMAT = \"">> \o FORMAT \o <<"\" TYPE = \"">> \o TYPE \o <<"\")">>

prefix(id) == ReplaceAll(id, <<"-">>, <<>>) \o <<"_">>

prepend(id, name) == prefix(id) \o name

\* remove with every occurrence of the prefix deleted instead of the first.
removeAll(id, name) == ReplaceAll(name, prefix(id), <<>>)

remove(id, name) == ReplaceFirst(name, prefix(id), <<>>)

\* indexOf returning the last match instead of the first.
indexOfLast(element, data) ==
    LET hits == {k \in 1..Len(data) : data[k] = element}
    IN IF hits = {} THEN -1
       ELSE (CHOOSE k \in hits : \A j \in hits : k >= j) - 1

\* Go's 0-based index of the first element equal to element, -1 if none.
indexOf(element, data) ==
    LET hits == {k \in 1..Len(data) : data[k] = element}
    IN IF hits = {} THEN -1
       ELSE (CHOOSE k \in hits : \A j \in hits : k <= j) - 1


\* result comparing the status with 200 whatever status the caller expects.
resultExpectsOK(res, action, status) ==
    IF res.status # StatusOK
    THEN IF ~res.readable
         THEN [str |-> <<>>, err |-> Wrap(ErrKuiperServer, "read")]
         ELSE [str |-> action \o <<" failed. Kuiper http status: ">>
                       \o Itoa(res.status) \o <<". ">> \o res.text,
               err |-> "nil"]
    ELSE [str |-> action \o <<" successful.">>, err |-> "nil"]

\* result(res, action, status): the text and the error CreateStream,
\* UpdateStream, DeleteStream and CreateRule return for a backend response.
result(res, action, status) ==
    IF res.status # status
    THEN IF ~res.readable
         THEN [str |-> <<>>, err |-> Wrap(ErrKuiperServer, "read")]
         ELSE [str |-> action \o <<" failed. Kuiper http status: ">>
                       \o Itoa(res.status) \o <<". ">> \o res.text,
               err |-> "nil"]
    ELSE [str |-> action \o <<" successful.">>, err |-> "nil"]

(***************************************************************************)
(* The inputs of a call: what the caller passes and what the collaborators *)
(* (identity service, channel service, backend engine) answer.             *)
(***************************************************************************)
\* Identities are non-empty and begin with a letter or digit, as the
\* identifiers the identity service issues do.
IdGlyphs == {"a", "b", "-"}
Ids == {u \in SeqsUpTo(IdGlyphs, MaxIdLen) : u # <<>> /\ u[1] # "-"}
IdentifyResults ==
    {[err |-> TRUE, id |-> <<>>]} \cup {[err |-> FALSE, id |-> u] : u \in Ids}

NameGlyphs == {"a", "_", "%"}
Names == SeqsUpTo(NameGlyphs, MaxNameLen)
Topics == {<<"t">>}
Rows == {<<"r">>}
RuleIds == {<<"a">>, <<"_">>}
from == <<"from">>
SqlGlyphs == {" ", "from", "FROM"}
Queries == SeqsUpTo(SqlGlyphs, MaxSqlLen)
ChannelResults == {"ok", "err"}

NoArgs == [name |-> <<>>, topic |-> <<>>, row |-> <<>>, query |-> <<>>, nact |-> 0]
NoResp == [kind |-> "none", status |-> 0, readable |-> TRUE, text |-> <<>>, list |-> <<>>]
NoRet == [str |-> <<>>, list |-> <<>>]
NoNs == [step |-> 0, u1 |-> <<>>, r1 |-> <<>>, n1 |-> <<>>,
         u2 |-> <<>>, r2 |-> <<>>, n2 |-> <<>>]

Statuses == {StatusOK, StatusCreated, StatusNotFound}
NetErr == [NoResp EXCEPT !.kind = "neterr"]
Http(status, readable, text, list) ==
    [kind |-> "http", status |-> status, readable |-> readable,
     text |-> text, list |-> list]

BodyTexts == {<<>>, <<"e">>}
\* Answers with a plain-text body, which may fail to be read.
TextResponses ==
    {NetErr}
    \cup {Http(s, TRUE, t, <<>>) : s \in Statuses, t \in BodyTexts}
    \cup {Http(s, FALSE, <<>>, <<>>) : s \in Statuses}

EntryGlyphs == {"a", "_"}
Entries == SeqsUpTo(EntryGlyphs, MaxEntryLen)
\* Answers to GET /streams: a JSON list of names, or a body that does not decode.
ListResponses ==
    {NetErr}
    \cup {Http(StatusOK, TRUE, <<>>, l) : l \in SeqsUpTo(Entries, MaxList)}
    \cup {Http(s, FALSE, <<>>, <<>>) : s \in Statuses}

\* Answers to GET /streams/{name}: a stream (the one asked for or another), or
\* a body that does not decode.
ViewResponses(asked, plain) ==
    {NetErr}
    \cup {Http(s, TRUE, n, <<>>) : s \in Statuses, n \in {asked, plain, <<"_">>}}
    \cup {Http(s, FALSE, <<>>, <<>>) : s \in Statuses}

InfoResponses ==
    {NetErr}
    \cup {Http(s, TRUE, <<"v">>, <<>>) : s \in Statuses}
    \cup {Http(s, FALSE, <<>>, <<>>) : s \in Statuses}

Request(method, url, id, q) == [method |-> method, url |-> url, id |-> id, sql |-> q]

\* The call ends: everything the caller and the collaborators saw of it.
Done(o, idn, a, ch, rs, tr, sn, r, e, oc) ==
    /\ op' = o
    /\ ident' = idn
    /\ args' = a
    /\ chan' = ch
    /\ resp' = rs
    /\ trace' = tr
    /\ sent' = sn
    /\ ret' = r
    /\ err' = e
    /\ outcome' = oc
    /\ UNCHANGED ns

Init ==
    /\ op = "none"
    /\ ident = [err |-> TRUE, id |-> <<>>]
    /\ args = NoArgs
    /\ chan = "none"
    /\ resp = NoResp
    /\ trace = <<>>
    /\ sent = <<>>
    /\ ret = NoRet
    /\ err = "nil"
    /\ outcome = "none"
    /\ ns = NoNs

(***************************************************************************)
(* The operations of the service.                                          *)
(***************************************************************************)
\* Info takes no token and never asks the identity service; ident records what
\* the identity service would answer for the caller's token.
Info ==
    /\ outcome = "none"
    /\ \E idn \in IdentifyResults :
        LET fin(rs, sn, r, e) ==
                Done("Info", idn, NoArgs, "none", rs,
                     IF sn = <<>> THEN <<>> ELSE <<"HTTP">>, sn, r, e, "returned")
            req == Request("GET", host, <<>>, <<>>)
        IN IF ~ValidURL(host)
           THEN fin(NoResp, <<>>, NoRet, Wrap(ErrKuiperServer, "url"))
           ELSE \E rs \in InfoResponses :
                IF rs.kind = "neterr"
                THEN fin(rs, <<req>>, NoRet, Wrap(ErrKuiperServer, "net"))
                ELSE IF ~rs.readable
                THEN fin(rs, <<req>>, NoRet, Wrap(ErrKuiperServer, "decode"))
                ELSE fin(rs, <<req>>, [NoRet EXCEPT !.str = rs.text], "nil")

CreateStream ==
    /\ outcome = "none"
    /\ \E idn \in IdentifyResults, name \in Names, topic \in Topics, row \in Rows :
        LET a == [NoArgs EXCEPT !.name = name, !.topic = topic, !.row = row]
            fin(ch, rs, tr, sn, r, e) ==
                Done("CreateStream", idn, a, ch, rs, tr, sn, r, e, "returned")
        IN IF idn.err
           THEN fin("none", NoResp, <<"Identify">>, <<>>, NoRet, ErrUnauthorizedAccess)
           ELSE \E ch \in ChannelResults :
                IF ch = "err"
                THEN fin(ch, NoResp, <<"Identify", "Channel">>, <<>>, NoRet,
                         ErrUnauthorizedAccess)
                ELSE LET nsname == prepend(idn.id, name)
                         url == host \o <<"/streams">>
                         req == Request("POST", url, <<>>, sql(nsname, topic, row))
                     IN IF ~ValidURL(url)
                        THEN fin(ch, NoResp, <<"Identify", "Channel">>, <<>>, NoRet,
                                 Wrap(ErrKuiperServer, "url"))
                        ELSE \E rs \in TextResponses :
                             IF rs.kind = "neterr"
                             THEN fin(ch, rs, <<"Identify", "Channel", "HTTP">>, <<req>>,
                                      NoRet, Wrap(ErrKuiperServer, "net"))
                             ELSE LET res == result(rs, <<"Create stream">>, StatusCreated)
                                  IN fin(ch, rs, <<"Identify", "Channel", "HTTP">>, <<req>>,
                                         [NoRet EXCEPT !.str = res.str], res.err)

\* UpdateStream sending the request before it checks the channel.
UpdateStreamRequestFirst ==
    /\ outcome = "none"
    /\ \E idn \in IdentifyResults, name \in Names, topic \in Topics, row \in Rows :
        LET a == [NoArgs EXCEPT !.name = name, !.topic = topic, !.row = row]
            fin(ch, rs, tr, sn, r, e) ==
                Done("UpdateStream", idn, a, ch, rs, tr, sn, r, e, "returned")
        IN IF idn.err
           THEN fin("none", NoResp, <<"Identify">>, <<>>, NoRet, ErrUnauthorizedAccess)
           ELSE LET nsname == prepend(idn.id, name)
                    url == host \o <<"/streams/">> \o nsname
                    req == Request("PUT", url, <<>>, sql(nsname, topic, row))
                IN IF ~ValidURL(url)
                   THEN fin("none", NoResp, <<"Identify">>, <<>>, NoRet,
                            Wrap(ErrKuiperServer, "url"))
                   ELSE \E rs \in TextResponses :
                        IF rs.kind = "neterr"
                        THEN fin("none", rs, <<"Identify", "HTTP">>, <<req>>,
                                 NoRet, Wrap(ErrKuiperServer, "net"))
                        ELSE \E ch \in ChannelResults :
                             IF ch = "err"
                             THEN fin(ch, rs, <<"Identify", "HTTP", "Channel">>, <<req>>,
                                      NoRet, ErrUnauthorizedAccess)
                             ELSE LET res == result(rs, <<"Update stream">>, StatusOK)
                                  IN fin(ch, rs, <<"Identify", "HTTP", "Channel">>, <<req>>,
                                         [NoRet EXCEPT !.str = res.str], res.err)

\* json.Marshal of a map of strings cannot fail: the ErrMalformedEntity return of
\* UpdateStream is never taken.
UpdateStream ==
    /\ outcome = "none"
    /\ \E idn \in IdentifyResults, name \in Names, topic \in Topics, row \in Rows :
        LET a == [NoArgs EXCEPT !.name = name, !.topic = topic, !.row = row]
            fin(ch, rs, tr, sn, r, e) ==
                Done("UpdateStream", idn, a, ch, rs, tr, sn, r, e, "returned")
        IN IF idn.err
           THEN fin("none", NoResp, <<"Identify">>, <<>>, NoRet, ErrUnauthorizedAccess)
           ELSE \E ch \in ChannelResults :
                IF ch = "err"
                THEN fin(ch, NoResp, <<"Identify", "Channel">>, <<>>, NoRet,
                         ErrUnauthorizedAccess)
                ELSE LET nsname == prepend(idn.id, name)
                         url == host \o <<"/streams/">> \o nsname
                         req == Request("PUT", url, <<>>, sql(nsname, topic, row))
                     IN IF ~ValidURL(url)
                        THEN fin(ch, NoResp, <<"Identify", "Channel">>, <<>>, NoRet,
                                 Wrap(ErrKuiperServer, "url"))
                        ELSE \E rs \in TextResponses :
                             IF rs.kind = "neterr"
                             THEN fin(ch, rs, <<"Identify", "Channel", "HTTP">>, <<req>>,
                                      NoRet, Wrap(ErrKuiperServer, "net"))
                             ELSE LET res == result(rs, <<"Update stream">>, StatusOK)
                                  IN fin(ch, rs, <<"Identify", "Channel", "HTTP">>, <<req>>,
                                         [NoRet EXCEPT !.str = res.str], res.err)

ListStreams ==
    /\ outcome = "none"
    /\ \E idn \in IdentifyResults :
        LET fin(rs, tr, sn, r, e) ==
                Done("ListStreams", idn, NoArgs, "none", rs, tr, sn, r, e, "returned")
            url == host \o <<"/streams">>
            req == Request("GET", url, <<>>, <<>>)
        IN IF idn.err
           THEN fin(NoResp, <<"Identify">>, <<>>, NoRet, ErrUnauthorizedAccess)
           ELSE IF ~ValidURL(url)
           THEN fin(NoResp, <<"Identify">>, <<>>, NoRet, Wrap(ErrKuiperServer, "url"))
           ELSE \E rs \in ListResponses :
                IF rs.kind = "neterr"
                THEN fin(rs, <<"Identify", "HTTP">>, <<req>>, NoRet,
                         Wrap(ErrKuiperServer, "net"))
                ELSE IF ~rs.readable
                THEN fin(rs, <<"Identify", "HTTP">>, <<req>>, NoRet,
                         Wrap(ErrMalformedEntity, "decode"))
                ELSE LET streams == [i \in 1..Len(rs.list) |-> remove(idn.id, rs.list[i])]
                     IN fin(rs, <<"Identify", "HTTP">>, <<req>>,
                            [NoRet EXCEPT !.list = streams], "nil")

\* ViewStream without the test for 404: the body of a 404 is decoded like any other.
ViewStreamNo404 ==
    /\ outcome = "none"
    /\ \E idn \in IdentifyResults, name \in Names :
        LET a == [NoArgs EXCEPT !.name = name]
            fin(rs, tr, sn, r, e) ==
                Done("ViewStream", idn, a, "none", rs, tr, sn, r, e, "returned")
        IN IF idn.err
           THEN fin(NoResp, <<"Identify">>, <<>>, NoRet, ErrUnauthorizedAccess)
           ELSE LET nsname == prepend(idn.id, name)
                    url == host \o <<"/streams/">> \o nsname
                    req == Request("GET", url, <<>>, <<>>)
                IN IF ~ValidURL(url)
                   THEN fin(NoResp, <<"Identify">>, <<>>, NoRet,
                            Wrap(ErrKuiperServer, "url"))
                   ELSE \E rs \in ViewResponses(nsname, name) :
                        IF rs.kind = "neterr"
                        THEN fin(rs, <<"Identify", "HTTP">>, <<req>>, NoRet,
                                 Wrap(ErrKuiperServer, "net"))
                        ELSE IF ~rs.readable
                        THEN fin(rs, <<"Identify", "HTTP">>, <<req>>, NoRet,
                                 Wrap(ErrMalformedEntity, "decode"))
                        ELSE fin(rs, <<"Identify", "HTTP">>, <<req>>,
                                 [NoRet EXCEPT !.str = remove(idn.id, rs.text)], "nil")

ViewStream ==
    /\ outcome = "none"
    /\ \E idn \in IdentifyResults, name \in Names :
        LET a == [NoArgs EXCEPT !.name = name]
            fin(rs, tr, sn, r, e) ==
                Done("ViewStream", idn, a, "none", rs, tr, sn, r, e, "returned")
        IN IF idn.err
           THEN fin(NoResp, <<"Identify">>, <<>>, NoRet, ErrUnauthorizedAccess)
           ELSE LET nsname == prepend(idn.id, name)
                    url == host \o <<"/streams/">> \o nsname
                    req == Request("GET", url, <<>>, <<>>)
                IN IF ~ValidURL(url)
                   THEN fin(NoResp, <<"Identify">>, <<>>, NoRet,
                            Wrap(ErrKuiperServer, "url"))
                   ELSE \E rs \in ViewResponses(nsname, name) :
                        IF rs.kind = "neterr"
                        THEN fin(rs, <<"Identify", "HTTP">>, <<req>>, NoRet,
                                 Wrap(ErrKuiperServer, "net"))
                        ELSE IF rs.status = StatusNotFound
                        THEN fin(rs, <<"Identify", "HTTP">>, <<req>>, NoRet,
                                 Wrap(ErrNotFound, "nil"))
                        ELSE IF ~rs.readable
                        THEN fin(rs, <<"Identify", "HTTP">>, <<req>>, NoRet,
                                 Wrap(ErrMalformedEntity, "decode"))
                        ELSE fin(rs, <<"Identify", "HTTP">>, <<req>>,
                                 [NoRet EXCEPT !.str = remove(idn.id, rs.text)], "nil")

\* DeleteStream going on after a failed identity lookup, with an empty identity.
DeleteStreamNoIdentityCheck ==
    /\ outcome = "none"
    /\ \E idn \in IdentifyResults, name \in Names :
        LET a == [NoArgs EXCEPT !.name = name]
            fin(rs, tr, sn, r, e) ==
                Done("DeleteStream", idn, a, "none", rs, tr, sn, r, e, "returned")
            nsname == prepend(idn.id, name)
            url == host \o <<"/streams/">> \o nsname
            req == Request("DELETE", url, <<>>, <<>>)
        IN IF ~ValidURL(url)
           THEN fin(NoResp, <<"Identify">>, <<>>, NoRet, Wrap(ErrKuiperServer, "url"))
           ELSE \E rs \in TextResponses :
                IF rs.kind = "neterr"
                THEN fin(rs, <<"Identify", "HTTP">>, <<req>>, NoRet,
                         Wrap(ErrKuiperServer, "net"))
                ELSE LET res == result(rs, <<"Delete stream">>, StatusOK)
                     IN fin(rs, <<"Identify", "HTTP">>, <<req>>,
                            [NoRet EXCEPT !.str = res.str], res.err)

\* DeleteStream sending the request a second time after a transport failure.
DeleteStreamRetry ==
    /\ outcome = "none"
    /\ \E idn \in IdentifyResults, name \in Names :
        LET a == [NoArgs EXCEPT !.name = name]
            fin(rs, tr, sn, r, e) ==
                Done("DeleteStream", idn, a, "none", rs, tr, sn, r, e, "returned")
        IN IF idn.err
           THEN fin(NoResp, <<"Identify">>, <<>>, NoRet, ErrUnauthorizedAccess)
           ELSE LET nsname == prepend(idn.id, name)
                    url == host \o <<"/streams/">> \o nsname
                    req == Request("DELETE", url, <<>>, <<>>)
                IN IF ~ValidURL(url)
                   THEN fin(NoResp, <<"Identify">>, <<>>, NoRet,
                            Wrap(ErrKuiperServer, "url"))
                   ELSE \E first \in TextResponses :
                        IF first.kind = "neterr"
                        THEN \E rs \in TextResponses :
                             IF rs.kind = "neterr"
                             THEN fin(rs, <<"Identify", "HTTP", "HTTP">>, <<req, req>>,
                                      NoRet, Wrap(ErrKuiperServer, "net"))
                             ELSE LET res == result(rs, <<"Delete stream">>, StatusOK)
                                  IN fin(rs, <<"Identify", "HTTP", "HTTP">>, <<req, req>>,
                                         [NoRet EXCEPT !.str = res.str], res.err)
                        ELSE LET res == result(first, <<"Delete stream">>, StatusOK)
                             IN fin(first, <<"Identify", "HTTP">>, <<req>>,
                                    [NoRet EXCEPT !.str = res.str], res.err)

DeleteStream ==
    /\ outcome = "none"
    /\ \E idn \in IdentifyResults, name \in Names :
        LET a == [NoArgs EXCEPT !.name = name]
            fin(rs, tr, sn, r, e) ==
                Done("DeleteStream", idn, a, "none", rs, tr, sn, r, e, "returned")
        IN IF idn.err
           THEN fin(NoResp, <<"Identify">>, <<>>, NoRet, ErrUnauthorizedAccess)
           ELSE LET nsname == prepend(idn.id, name)
                    url == host \o <<"/streams/">> \o nsname
                    req == Request("DELETE", url, <<>>, <<>>)
                IN IF ~ValidURL(url)
                   THEN fin(NoResp, <<"Identify">>, <<>>, NoRet,
                            Wrap(ErrKuiperServer, "url"))
                   ELSE \E rs \in TextResponses :
                        IF rs.kind = "neterr"
                        THEN fin(rs, <<"Identify", "HTTP">>, <<req>>, NoRet,
                                 Wrap(ErrKuiperServer, "net"))
                        ELSE LET res == result(rs, <<"Delete stream">>, StatusOK)
                             IN fin(rs, <<"Identify", "HTTP">>, <<req>>,
                                    [NoRet EXCEPT !.str = res.str], res.err)

\* rule.Actions[0] and words[idx] are index expressions: out of range, the call
\* panics and returns nothing.
CreateRule ==
    /\ outcome = "none"
    /\ \E idn \in IdentifyResults, id \in RuleIds, query \in Queries,
          nact \in 0..MaxActions :
        LET a == [NoArgs EXCEPT !.name = id, !.query = query, !.nact = nact]
            fin(ch, rs, tr, sn, r, e) ==
                Done("CreateRule", idn, a, ch, rs, tr, sn, r, e, "returned")
            panic(ch, tr) ==
                Done("CreateRule", idn, a, ch, NoResp, tr, <<>>, NoRet, "nil", "panic")
        IN IF idn.err
           THEN fin("none", NoResp, <<"Identify">>, <<>>, NoRet, ErrUnauthorizedAccess)
           ELSE IF nact = 0
           THEN panic("none", <<"Identify">>)
           ELSE \E ch \in ChannelResults :
                IF ch = "err"
                THEN fin(ch, NoResp, <<"Identify", "Channel">>, <<>>, NoRet,
                         ErrUnauthorizedAccess)
                ELSE LET words == Fields(query)
                         idx == indexOf(from, words) + 1
                     IN IF idx >= Len(words)
                        THEN panic(ch, <<"Identify", "Channel">>)
                        ELSE LET rewritten ==
                                     [words EXCEPT ![idx + 1] = prepend(idn.id, words[idx + 1])]
                                 url == host \o <<"/rules">>
                                 req == Request("POST", url, prepend(idn.id, id),
                                                Join(rewritten, <<" ">>))
                             IN IF ~ValidURL(url)
                                THEN fin(ch, NoResp, <<"Identify", "Channel">>, <<>>,
                                         NoRet, Wrap(ErrKuiperServer, "url"))
                                ELSE \E rs \in TextResponses :
                                     IF rs.kind = "neterr"
                                     THEN fin(ch, rs, <<"Identify", "Channel", "HTTP">>,
                                              <<req>>, NoRet, Wrap(ErrKuiperServer, "net"))
                                     ELSE LET res == result(rs, <<"Create rule">>,
                                                            StatusCreated)
                                          IN fin(ch, rs, <<"Identify", "Channel", "HTTP">>,
                                                 <<req>>, [NoRet EXCEPT !.str = res.str],
                                                 res.err)

\* Calls are independent: nothing of a finished call is kept for the next one.
NextCall ==
    /\ outcome # "none"
    /\ Done("none", [err |-> TRUE, id |-> <<>>], NoArgs, "none", NoResp, <<>>, <<>>,
            NoRet, "nil", "none")

Next ==
    \/ Info
    \/ CreateStream
    \/ UpdateStream
    \/ ListStreams
    \/ ViewStream
    \/ DeleteStream
    \/ CreateRule
    \/ NextCall

Spec == Init /\ [][Next]_vars

(***************************************************************************)
(* Tenancy: the stream names two callers address.  The first caller        *)
(* creates a stream, the second updates, views or deletes one; each name   *)
(* is computed as the operations compute it, name = prepend(ui.Id, name).  *)
(***************************************************************************)
mainvars == <<op, ident, args, chan, resp, trace, sent, ret, err, outcome>>

NsCreate ==
    /\ ns.step = 0
    /\ \E u \in Ids, r \in Names :
        ns' = [ns EXCEPT !.step = 1, !.u1 = u, !.r1 = r, !.n1 = prepend(u, r)]
    /\ UNCHANGED mainvars

NsTarget ==
    /\ ns.step = 1
    /\ \E u \in Ids, r \in Names :
        ns' = [ns EXCEPT !.step = 2, !.u2 = u, !.r2 = r, !.n2 = prepend(u, r)]
    /\ UNCHANGED mainvars

NsForget ==
    /\ ns.step = 2
    /\ ns' = NoNs
    /\ UNCHANGED mainvars

NsNext ==
    \/ NsCreate
    \/ NsTarget
    \/ NsForget

NsSpec == Init /\ [][NsNext]_vars

(***************************************************************************)
(* Properties.                                                             *)
(***************************************************************************)
TokenOps ==
    {"CreateStream", "UpdateStream", "ListStreams", "ViewStream", "DeleteStream",
     "CreateRule"}
ChannelOps == {"CreateStream", "UpdateStream", "CreateRule"}

\* s starts with p.
HasPrefix(s, p) == Len(p) <= Len(s) /\ SubSeq(s, 1, Len(p)) = p

\* The caller's identity with the hyphens left out, and an underscore.
NoHyphens(id) == SelectSeq(id, LAMBDA g : g # "-")
Namespace(id) == NoHyphens(id) \o <<"_">>

\* C1 as stated: whenever the caller's token fails identity resolution, the
\* call, whatever the operation (Info included), returns the unauthorized-access
\* error and sends nothing to the backend.
C1_EveryOpRejectsBadToken ==
    (outcome # "none" /\ ident.err) =>
        (outcome = "returned" /\ err = ErrUnauthorizedAccess /\ sent = <<>>)

\* C1 amended: whenever the token fails identity resolution, each of the six
\* operations that take a token (all but Info) returns the unauthorized-access
\* error and sends nothing to the backend.
C1_TokenOpsRejectBadToken ==
    (op \in TokenOps /\ ident.err) =>
        (outcome = "returned" /\ err = ErrUnauthorizedAccess /\ sent = <<>>)

C1_Witness ==
    /\ op = "DeleteStream"
    /\ ident.err
    /\ err = ErrUnauthorizedAccess

\* C2: in CreateStream, UpdateStream and CreateRule the collaborators are called
\* in the order identity, channel, backend; when the identity resolves and the
\* channel check fails, the call returns the unauthorized-access error and no
\* backend request is sent.
C2_ChannelCheckBeforeBackend ==
    (op \in ChannelOps /\ outcome # "none") =>
        /\ trace \in {<<"Identify">>, <<"Identify", "Channel">>,
                      <<"Identify", "Channel", "HTTP">>}
        /\ (~ident.err /\ chan = "err") =>
              /\ outcome = "returned"
              /\ err = ErrUnauthorizedAccess
              /\ sent = <<>>

C2_Witness ==
    /\ op = "UpdateStream"
    /\ ~ident.err
    /\ chan = "err"
    /\ trace = <<"Identify", "Channel">>

\* C3: the name sent to the backend is the caller's identity without hyphens,
\* an underscore, and the resource name; when the backend answers a view with
\* the stream of that name, the name returned to the caller is the resource
\* name again.
C3_NamespaceRoundTrip ==
    /\ (op = "CreateStream" /\ sent # <<>>) =>
          sent[1].sql = sql(Namespace(ident.id) \o args.name, args.topic, args.row)
    /\ (op = "ViewStream" /\ sent # <<>>) =>
          /\ sent[1].url = host \o <<"/streams/">> \o Namespace(ident.id) \o args.name
          /\ (err = "nil" /\ resp.text = Namespace(ident.id) \o args.name) =>
                ret.str = args.name

C3_Witness ==
    /\ op = "ViewStream"
    /\ err = "nil"
    /\ sent # <<>>
    /\ resp.kind = "http"
    /\ resp.text = Namespace(ident.id) \o args.name
    /\ ident.id = <<"a", "-">>
    /\ args.name = <<"a", "_">>
    /\ ret.str = <<"a", "_">>

\* C4 as stated: ListStreams returns a list of the same length and order as the
\* backend's, each entry that starts with the caller's prefix without that
\* prefix, each entry that does not start with it unchanged.
C4_ListStripsLeadingPrefixOnly ==
    (op = "ListStreams" /\ outcome = "returned" /\ err = "nil") =>
        /\ Len(ret.list) = Len(resp.list)
        /\ \A i \in 1..Len(resp.list) :
              LET e == resp.list[i]
                  p == Namespace(ident.id)
              IN ret.list[i] = IF HasPrefix(e, p)
                               THEN SubSeq(e, Len(p) + 1, Len(e))
                               ELSE e

C6_ViewNotFound ==
    (op = "ViewStream" /\ ~ident.err /\ resp.kind = "http"
        /\ resp.status = StatusNotFound) =>
        (outcome = "returned" /\ err = ErrNotFound)

C6_Witness ==
    /\ op = "ViewStream"
    /\ ~ident.err
    /\ resp.kind = "http"
    /\ resp.status = StatusNotFound
    /\ err = ErrNotFound

Action(o) ==
    CASE o = "CreateStream" -> <<"Create stream">>
      [] o = "UpdateStream" -> <<"Update stream">>
      [] o = "DeleteStream" -> <<"Delete stream">>
Expected(o) == IF o = "CreateStream" THEN StatusCreated ELSE StatusOK
Decimal(n) ==
    CASE n = StatusOK -> <<"2", "0", "0">>
      [] n = StatusCreated -> <<"2", "0", "1">>
      [] n = StatusNotFound -> <<"4", "0", "4">>

\* C7: when the backend answers CreateStream (expecting 201), UpdateStream or
\* DeleteStream (expecting 200) with another status and a readable body, the
\* call returns no error and a text holding the action's name, the status code
\* in decimal and the body; with the expected status it returns
\* "<action> successful." and no error.
C7_StatusToResultString ==
    (op \in {"CreateStream", "UpdateStream", "DeleteStream"} /\ resp.kind = "http") =>
        /\ outcome = "returned"
        /\ resp.status = Expected(op) =>
              (err = "nil" /\ ret.str = Action(op) \o <<" successful.">>)
        /\ (resp.status # Expected(op) /\ resp.readable) =>
              /\ err = "nil"
              /\ ret.str # Action(op) \o <<" successful.">>
              /\ HasPrefix(ret.str, Action(op))
              /\ Index(ret.str, Decimal(resp.status)) > 0
              /\ Index(ret.str, resp.text) > 0
              /\ SubSeq(ret.str, Len(ret.str) - Len(resp.text) + 1, Len(ret.str))
                    = resp.text

C7_Witness ==
    /\ op = "CreateStream"
    /\ resp.kind = "http"
    /\ resp.status = StatusOK
    /\ resp.text = <<"e">>
    /\ err = "nil"
    /\ ret.str = <<"Create stream", " failed. Kuiper http status: ",
                   "2", "0", "0", ". ", "e">>

\* C8 as stated: every call ends by returning a result or one of the error
\* kinds; none ends in an abort.
C8_EveryCallReturns ==
    outcome # "none" =>
        (outcome = "returned" /\ err \in ErrorKinds \cup {"nil"})

\* All the authorization checks of the operation were made and passed.
AuthPassed ==
    CASE op = "Info" -> TRUE
      [] op \in ChannelOps -> ~ident.err /\ chan = "ok"
      [] OTHER -> ~ident.err

\* C9 as stated: a call sends at most one request to the backend, and exactly
\* one when all its authorization checks pass.
C9_ExactlyOneRequest ==
    outcome # "none" =>
        /\ Len(sent) <= 1
        /\ AuthPassed => Len(sent) = 1

\* C9 amended: a call sends at most one request to the backend, and none
\* unless all its authorization checks passed; a call that got an answer or a
\* transport failure sent exactly one request (nothing is retried); with the
\* checks passed, no request is sent only when the HTTP library rejects the
\* request URL (a backend error is returned) or when CreateRule aborts before
\* it builds the request.
C9_AtMostOneRequest ==
    outcome # "none" =>
        /\ Len(sent) <= 1
        /\ sent # <<>> => AuthPassed
        /\ resp.kind # "none" => Len(sent) = 1
        /\ (AuthPassed /\ sent = <<>>) =>
              \/ outcome = "panic" /\ op = "CreateRule"
              \/ /\ err = ErrKuiperServer
                 /\ op \in {"UpdateStream", "ViewStream", "DeleteStream"}
                 /\ ~ValidURL(args.name)

C9_Witness ==
    /\ op = "DeleteStream"
    /\ resp.kind = "neterr"
    /\ err = ErrKuiperServer
    /\ Len(sent) = 1

\* C10 as stated: two callers with different identities never address the same
\* backend name, whatever resource names they give.
C10_TenantIsolation ==
    (ns.step = 2 /\ ns.u1 # ns.u2) => ns.n1 # ns.n2

=============================================================================
